---- MODULE Spec2Model ----
(***************************************************************************)
(* Model of the ansys pre-commit hooks.                                    *)
(*                                                                         *)
(*   add_license_headers.py : main(), update_license_file(), the file      *)
(*   walkers, update_header(), apply_hook_changes(), update_year_range().  *)
(*                                                                         *)
(* Text is modelled as far as the code looks at it.  A file is a sequence  *)
(* of lines; a line records whether the REUSE scanner sees copyright or    *)
(* license metadata in it and which year token ("1944" or "1942 - 1944")   *)
(* it carries.  A year token is a sequence of one or two years.  Python    *)
(* values that the code compares across types carry their type.            *)
(***************************************************************************)
EXTENDS Integers, Sequences, FiniteSets, TLC

(***************************************************************************)
(* Bounds of the model and constants of the program.                       *)
(***************************************************************************)
\* The calendar year of the run, dt.today().year.
ThisYear == 1944
\* The earliest year that appears in a file or on the command line.
FirstYear == 1941
\* How many hook runs in a row a behaviour contains.
MaxRuns == 2
\* How many calls of update_license_file a behaviour of SpecLicense contains.
MaxCalls == 3

\* add_license_headers.py:744, the earliest start year main() accepts.
EARLIEST_YEAR == 1942

\* tech_review.py:45 and 48.
DEFAULT_AUTHOR_MAINT_NAME == "ANSYS, Inc."
DEFAULT_AUTHOR_MAINT_EMAIL == "pyansys.core@ansys.com"
DEFAULT_LICENSE == "MIT"
DEFAULT_TEMPLATE == "ansys"
DEFAULT_COPYRIGHT == "ANSYS"
\* add_license_headers.py:49, evaluated when the module is imported.
DEFAULT_START_YEAR == ThisYear

Years == FirstYear..(ThisYear + 1)

(***************************************************************************)
(* Python values.  An int and a str are never equal, whatever they hold.   *)
(* A str is a sequence of one-character strings.                           *)
(***************************************************************************)
PyInt(n) == [ty |-> "int", v |-> n]
PyStr(s) == [ty |-> "str", v |-> s]
\* a == b and a != b of Python.
PyEq(a, b) == a.ty = b.ty /\ a.v = b.v
PyNe(a, b) == ~PyEq(a, b)

DigitChars == {"0", "1", "2", "3", "4", "5", "6", "7", "8", "9"}

DigitVal(ch) ==
    CASE ch = "0" -> 0 [] ch = "1" -> 1 [] ch = "2" -> 2 [] ch = "3" -> 3
      [] ch = "4" -> 4 [] ch = "5" -> 5 [] ch = "6" -> 6 [] ch = "7" -> 7
      [] ch = "8" -> 8 [] ch = "9" -> 9

DigitChar(d) ==
    CASE d = 0 -> "0" [] d = 1 -> "1" [] d = 2 -> "2" [] d = 3 -> "3"
      [] d = 4 -> "4" [] d = 5 -> "5" [] d = 6 -> "6" [] d = 7 -> "7"
      [] d = 8 -> "8" [] d = 9 -> "9"

\* str.isdigit(): at least one character and every character a digit.
isdigit(s) == Len(s) > 0 /\ \A i \in 1..Len(s) : s[i] \in DigitChars

\* int(s) of a string of digits: leading zeros do not count.
RECURSIVE int(_)
int(s) == IF Len(s) = 0 THEN 0
          ELSE 10 * int(SubSeq(s, 1, Len(s) - 1)) + DigitVal(s[Len(s)])

\* str(n) of a non-negative int.
RECURSIVE DecimalOf(_)
DecimalOf(n) == IF n < 10 THEN <<DigitChar(n)>>
                ELSE DecimalOf(n \div 10) \o <<DigitChar(n % 10)>>

\* str(x): an int is printed in decimal, a str is itself.
str(x) == IF x.ty = "int" THEN PyStr(DecimalOf(x.v)) ELSE x

(***************************************************************************)
(* main(), lines 738-747: the check of --start_year.  The result is        *)
(* "ok" or the exception that ends the run.                                *)
(***************************************************************************)
CheckStartYear(start_year, today) ==
    IF isdigit(str(start_year).v)
    THEN IF int(str(start_year).v) > today THEN "raise_later_than_current"
         ELSE IF int(str(start_year).v) < EARLIEST_YEAR THEN "raise_earlier_than_1942"
         ELSE "ok"
    ELSE "raise_not_a_number"

(***************************************************************************)
(* Year text.  f"{a} - {b}" and the regular expression YEAR_REGEX          *)
(*     (\d{4}) - (\d{4})|\d{4}                                             *)
(* work on character strings.                                              *)
(***************************************************************************)
Dash == <<" ", "-", " ">>

\* f"{a} - {b}" for two Python values.
FmtRange(a, b) == PyStr(str(a).v \o Dash \o str(b).v)

\* Four digits start at position i of s.
FourDigitsAt(s, i) ==
    /\ i >= 1
    /\ i + 3 <= Len(s)
    /\ \A j \in i..(i + 3) : s[j] \in DigitChars

\* The first alternative of YEAR_REGEX matches at position i of s.
RangeAt(s, i) ==
    /\ FourDigitsAt(s, i)
    /\ i + 10 <= Len(s)
    /\ SubSeq(s, i + 4, i + 6) = Dash
    /\ FourDigitsAt(s, i + 7)

\* YEAR_REGEX matches at position i of s: the length of the match, 0 if none.
\* The alternatives are tried in order, the range first.
MatchLenAt(s, i) ==
    IF RangeAt(s, i) THEN 11 ELSE IF FourDigitsAt(s, i) THEN 4 ELSE 0

\* re.search(YEAR_REGEX, s): the position of the leftmost match, 0 if none.
SearchYear(s) ==
    IF \E i \in 1..Len(s) : MatchLenAt(s, i) > 0
    THEN CHOOSE i \in 1..Len(s) :
            /\ MatchLenAt(s, i) > 0
            /\ \A j \in 1..(i - 1) : MatchLenAt(s, j) = 0
    ELSE 0

\* re.sub(YEAR_REGEX, repl, s) from position i on: every match is replaced,
\* left to right, matches do not overlap.
RECURSIVE SubYearFrom(_, _, _)
SubYearFrom(s, i, repl) ==
    IF i > Len(s) THEN <<>>
    ELSE IF MatchLenAt(s, i) > 0
         THEN repl \o SubYearFrom(s, i + MatchLenAt(s, i), repl)
         ELSE <<s[i]>> \o SubYearFrom(s, i + 1, repl)

(***************************************************************************)
(* Files.  A line is a record:                                             *)
(*   k   "copy"  a copyright line, h its holder, txt its year text         *)
(*       "lic"   an SPDX-License-Identifier line, h the license id         *)
(*       "text"  a comment line of the header template, n tells them apart *)
(*       "body"  any other line, n tells them apart, txt the digits in it  *)
(* A file is a sequence of lines; the empty sequence is a 0-byte file.     *)
(***************************************************************************)
CopyLine(h, txt) == [k |-> "copy", h |-> h, txt |-> txt, n |-> 0]
LicLine(id) == [k |-> "lic", h |-> id, txt |-> <<>>, n |-> 0]
TextLine(n) == [k |-> "text", h |-> "", txt |-> <<>>, n |-> n]
BodyLine(n, txt) == [k |-> "body", h |-> "", txt |-> txt, n |-> n]

YearStr(y) == DecimalOf(y)
RangeStr(a, b) == DecimalOf(a) \o Dash \o DecimalOf(b)

\* The index of the first line of a file in which YEAR_REGEX matches, 0 if none:
\* re.search on "".join(lines).
FirstYearLine(content) ==
    IF \E i \in 1..Len(content) : SearchYear(content[i].txt) > 0
    THEN CHOOSE i \in 1..Len(content) :
            /\ SearchYear(content[i].txt) > 0
            /\ \A j \in 1..(i - 1) : SearchYear(content[j].txt) = 0
    ELSE 0

\* get_years_from_file, lines 684-693: the start and the end year of the
\* match year_range, which begins at position i of the text s.
YearsOfMatch(s, i, year_range) ==
    IF \E j \in 1..Len(year_range) : year_range[j] = "-"
    THEN [raise |-> FALSE, start |-> SubSeq(s, i, i + 3),
          end |-> SubSeq(s, i + 7, i + 10)]
    ELSE [raise |-> FALSE, start |-> year_range, end |-> year_range]

\* get_years_from_file, lines 680-682: the first match, in the text s.
YearsOfText(s, i) == YearsOfMatch(s, i, SubSeq(s, i, i + MatchLenAt(s, i) - 1))

\* The years of the first match when it is in line ln of the file.  With no
\* year in the file year_range_match is None and .group() raises.
YearsOfLine(content, ln) ==
    IF ln = 0 THEN [raise |-> TRUE, start |-> <<>>, end |-> <<>>]
    ELSE YearsOfText(content[ln].txt, SearchYear(content[ln].txt))

\* get_years_from_file, lines 669-693.
get_years_from_file(content) == YearsOfLine(content, FirstYearLine(content))

\* update_year_range, lines 645-649.
UserYearSpan(user_start_year, current_year) ==
    IF PyNe(str(user_start_year), str(current_year))
    THEN FmtRange(user_start_year, current_year)
    ELSE user_start_year

\* update_year_range, lines 650-654: m is what get_years_from_file returned.
MatchYearSpan(m) ==
    IF m.start # m.end THEN PyStr(m.start \o Dash \o m.end) ELSE PyStr(m.start)

\* The test of line 658 without its second half.
YearSpanDiffers_any_span(user_year_span, match_year_span, current_year) ==
    PyNe(user_year_span, match_year_span)

\* update_year_range, line 658: the span of the user is not the span of the
\* file and the span of the file is not the current year.
YearSpanDiffers(user_year_span, match_year_span, current_year) ==
    PyNe(user_year_span, match_year_span) /\ PyNe(match_year_span, current_year)

\* update_year_range, lines 658-664: re.sub on the content of the file.
RewriteYears(changed_headers, content, user_year_span, rewrite) ==
    IF rewrite
    THEN [raise |-> FALSE, changed |-> 1,
          content |-> [i \in 1..Len(content) |->
              [content[i] EXCEPT !.txt =
                  SubYearFrom(content[i].txt, 1, user_year_span.v)]]]
    ELSE [raise |-> FALSE, changed |-> changed_headers, content |-> content]

\* update_year_range from line 644 on: m is what get_years_from_file returned.
UpdateYearsOf(changed_headers, content, user_start_year, current_year, m) ==
    IF m.raise
    THEN [raise |-> TRUE, changed |-> changed_headers, content |-> content]
    ELSE RewriteYears(changed_headers, content,
                      UserYearSpan(user_start_year, current_year),
                      YearSpanDiffers(UserYearSpan(user_start_year, current_year),
                                      MatchYearSpan(m), current_year))

\* update_year_range, lines 611-666.  Returns whether it raised, the flag
\* and the new content.
update_year_range(changed_headers, content, user_start_year, current_year) ==
    UpdateYearsOf(changed_headers, content, user_start_year, current_year,
                  get_years_from_file(content))

(***************************************************************************)
(* check_same_content, lines 518-541: filecmp.cmp(..., shallow=False).     *)
(***************************************************************************)
check_same_content(before_hook, after_hook) == before_hook = after_hook

\* extract.contains_reuse_info(line) of the REUSE library.
contains_reuse_info(line) == line.k \in {"copy", "lic"}

(***************************************************************************)
(* apply_hook_changes, lines 544-589.  j is the position of the loop in    *)
(* after_hook_lines (from 1), count the counter of the code (from 0),      *)
(* found the flag found_reuse_info.  The result is what is written to the  *)
(* file.  before_hook_lines[count] raises IndexError when count is past    *)
(* the end; the code catches it and writes nothing for that line.          *)
(***************************************************************************)
RECURSIVE apply_hook_changes_from(_, _, _, _, _)
apply_hook_changes_from(before_hook_lines, after_hook_lines, j, count, found) ==
    IF j > Len(after_hook_lines) THEN <<>>
    ELSE LET line == after_hook_lines[j] IN
         IF contains_reuse_info(line)
         THEN <<line>> \o apply_hook_changes_from(before_hook_lines, after_hook_lines,
                                                  j + 1, count + 1, TRUE)
         ELSE IF found
              THEN (IF count < Len(before_hook_lines) /\ line # before_hook_lines[count + 1]
                    THEN <<line>> ELSE <<>>)
                   \o SubSeq(before_hook_lines, count + 1, Len(before_hook_lines))
              ELSE <<line>> \o apply_hook_changes_from(before_hook_lines, after_hook_lines,
                                                       j + 1, count + 1, FALSE)

\* apply_hook_changes with count starting at 1.
apply_hook_changes_count_from_1(before_hook_lines, after_hook_lines) ==
    apply_hook_changes_from(before_hook_lines, after_hook_lines, 1, 1, FALSE)

apply_hook_changes(before_hook_lines, after_hook_lines) ==
    apply_hook_changes_from(before_hook_lines, after_hook_lines, 1, 0, FALSE)

(***************************************************************************)
(* The annotator: get_reuse_info and add_header_to_file of the REUSE       *)
(* library, called by add_header (lines 476-515) with                      *)
(* merge_copyrights=True.  The header block of a file is its leading run   *)
(* of copyright, license and template lines.  The copyright lines of the   *)
(* block and the new one are merged per holder into the range of their     *)
(* years (a single year when the least and the greatest are the same), the *)
(* license ids are united, the block is rendered again: copyright lines    *)
(* sorted, license lines sorted, then the text of the template.  What      *)
(* follows the block is kept.                                              *)
(***************************************************************************)
RECURSIVE HeaderLen(_)
HeaderLen(content) ==
    IF content = <<>> \/ content[1].k = "body" THEN 0
    ELSE 1 + HeaderLen(Tail(content))

\* The years of a year text: "1944" or "1942 - 1944".
ParseYears(txt) ==
    IF Len(txt) = 4 /\ FourDigitsAt(txt, 1) THEN {int(txt)}
    ELSE IF Len(txt) = 11 /\ RangeAt(txt, 1)
         THEN {int(SubSeq(txt, 1, 4)), int(SubSeq(txt, 8, 11))}
         ELSE {}

SetMin(S) == CHOOSE x \in S : \A y \in S : x <= y
SetMax(S) == CHOOSE x \in S : \A y \in S : x >= y

MergedYearText(S) ==
    IF S = {} THEN <<>>
    ELSE IF SetMin(S) = SetMax(S) THEN YearStr(SetMin(S))
         ELSE RangeStr(SetMin(S), SetMax(S))

\* The order of the characters that occur in a copyright line.
CharRank(ch) ==
    CASE ch = " " -> 0 [] ch = "-" -> 1
      [] ch \in DigitChars -> 2 + DigitVal(ch)
      [] ch = "ANSYS" -> 20
      [] OTHER -> 21

RECURSIVE TextLess(_, _)
TextLess(a, b) ==
    IF b = <<>> THEN FALSE
    ELSE IF a = <<>> THEN TRUE
    ELSE IF CharRank(a[1]) # CharRank(b[1]) THEN CharRank(a[1]) < CharRank(b[1])
    ELSE TextLess(Tail(a), Tail(b))

\* The text of a copyright line after its prefix: the years, then the holder.
CopyText(l) == IF l.txt = <<>> THEN <<l.h>> ELSE l.txt \o <<" ", l.h>>

RECURSIVE SortCopy(_)
SortCopy(S) ==
    IF S = {} THEN <<>>
    ELSE LET m == CHOOSE x \in S : \A y \in S \ {x} : TextLess(CopyText(x), CopyText(y))
         IN <<m>> \o SortCopy(S \ {m})

RECURSIVE SortLic(_)
SortLic(S) ==
    IF S = {} THEN <<>>
    ELSE LET m == CHOOSE x \in S : \A y \in S \ {x} : x = DEFAULT_LICENSE \/ y # DEFAULT_LICENSE
         IN <<LicLine(m)>> \o SortLic(S \ {m})

\* The comment lines a header template renders below the metadata.  The
\* default template renders two empty comment lines and the license text.
TemplateText(template) ==
    IF template = DEFAULT_TEMPLATE
    THEN <<TextLine(0), TextLine(0), TextLine(1)>>
    ELSE <<TextLine(2)>>

\* The copyright lines and the license ids of a header block.
CopyLinesOf(header) == {header[i] : i \in {j \in 1..Len(header) : header[j].k = "copy"}}
LicenseIdsOf(header) == {header[i].h : i \in {j \in 1..Len(header) : header[j].k = "lic"}}

\* merge_copyrights=True: the lines of one holder become one line with the
\* range of their years.
MergeCopyrights(all) ==
    {CopyLine(h, MergedYearText(UNION {ParseYears(l.txt) : l \in {x \in all : x.h = h}})) :
        h \in {l.h : l \in all}}

\* The header the annotator renders for a file whose header block is header
\* (empty when the file has none) when it is handed the copyright line new
\* and the license ids license.
RenderHeader(header, new, license, template) ==
    SortCopy(IF header = <<>> THEN {new}
             ELSE MergeCopyrights(CopyLinesOf(header) \cup {new}))
    \o SortLic(LicenseIdsOf(header) \cup license)
    \o TemplateText(template)

\* The file with its header block, of hl lines, rendered again.
AnnotateAt(content, hl, new, license, template) ==
    RenderHeader(SubSeq(content, 1, hl), new, license, template)
    \o SubSeq(content, hl + 1, Len(content))

\* add_header, lines 476-515: copyright is the holder, license the set of
\* license ids (empty or one), years the year text handed over.
add_header(copyright, license, years, content, template) ==
    AnnotateAt(content, HeaderLen(content), CopyLine(copyright, years.v), license,
               template)

(***************************************************************************)
(* set_variables, lines 367-397.  values["start_year"] is what argparse    *)
(* delivers: the int DEFAULT_START_YEAR when the option is absent, a str   *)
(* when it is given.  values["current_year"] is the int dt.today().year.   *)
(***************************************************************************)
set_variables(values, arguments) ==
    [license |-> IF arguments.ignore_license_check THEN {} ELSE {values.license},
     copyright |-> values.copyright,
     template |-> values.template,
     years |-> IF PyNe(values.start_year, values.current_year)
               THEN FmtRange(values.start_year, values.current_year)
               ELSE str(values.current_year)]

\* str.split(" - "): the parts of a text between the separators.
RECURSIVE SplitDash(_, _)
SplitDash(s, acc) ==
    IF s = <<>> THEN <<PyStr(acc)>>
    ELSE IF Len(s) >= 3 /\ SubSeq(s, 1, 3) = Dash
         THEN <<PyStr(acc)>> \o SplitDash(SubSeq(s, 4, Len(s)), <<>>)
         ELSE SplitDash(Tail(s), Append(acc, s[1]))

(***************************************************************************)
(* update_header, lines 400-473.  The license handed to the annotator is   *)
(* always empty.  A years text of one part gets the int DEFAULT_START_YEAR *)
(* appended: the list years_list is never equal to an int.                 *)
(***************************************************************************)
\* update_header, lines 451-452: the annotated file after the reconciliation.
Reconcile(before_hook, annotated) ==
    IF check_same_content(before_hook, annotated) = FALSE
    THEN apply_hook_changes(before_hook, annotated)
    ELSE annotated

\* update_header, lines 454-459.
YearsList(split) ==
    IF Len(split) = 1 THEN Append(split, PyInt(DEFAULT_START_YEAR)) ELSE split

\* update_header without the comparison of lines 467-468.
HeaderResult_year_flag(before_hook, r) ==
    [raise |-> r.raise, content |-> r.content, changed |-> r.changed]

\* update_header returning 0 for a file it left as it was.
HeaderResult_resets_flag(before_hook, r) ==
    [raise |-> r.raise, content |-> r.content,
     changed |-> IF check_same_content(before_hook, r.content) = FALSE THEN 1 ELSE 0]

\* update_header, lines 464-473: r is what update_year_range returned.
HeaderResult(before_hook, r) ==
    [raise |-> r.raise,
     content |-> r.content,
     changed |-> IF check_same_content(before_hook, r.content) = FALSE
                 THEN 1 ELSE r.changed]

\* update_header, lines 454-462.
UpdateYears(changed_headers, reconciled, years_list) ==
    update_year_range(changed_headers, reconciled, years_list[1], years_list[2])

update_header(changed_headers, content, copyright, license, years, template) ==
    HeaderResult(content,
        UpdateYears(changed_headers,
                    Reconcile(content, add_header(copyright, {}, years, content, template)),
                    YearsList(SplitDash(years.v, <<>>))))

\* project.reuse_info_of(file): the scanner finds copyright or license
\* metadata in the file.
reuse_info_of(content) == \E i \in 1..Len(content) : contains_reuse_info(content[i])

\* Path(file).stat().st_size == 0
IsEmptyFile(content) == content = <<>>

(***************************************************************************)
(* One file of recursive_file_check (lines 300-317) or of                  *)
(* non_recursive_file_check (lines 351-362).  The result tells which path  *)
(* was taken, what was handed to the annotator (copyright, license,        *)
(* years), the flag and the content of the file afterwards.                *)
(***************************************************************************)
\* The second branch of the walker: u is what update_header returned.
UpdateResult(u, v) ==
    [raise |-> u.raise, path |-> "update", changed |-> u.changed,
     copyright |-> v.copyright, license |-> {}, years |-> v.years,
     content |-> u.content]

\* The walker with the first branch keeping the flag it was given.
check_file_keeps_flag(changed_headers, content, v) ==
    IF (~reuse_info_of(content)) \/ IsEmptyFile(content)
    THEN [raise |-> FALSE, path |-> "insert", changed |-> changed_headers,
          copyright |-> v.copyright, license |-> v.license, years |-> v.years,
          content |-> add_header(v.copyright, v.license, v.years, content, v.template)]
    ELSE UpdateResult(update_header(changed_headers, content, v.copyright, v.license,
                                    v.years, v.template), v)

check_file(changed_headers, content, v) ==
    IF (~reuse_info_of(content)) \/ IsEmptyFile(content)
    THEN [raise |-> FALSE, path |-> "insert", changed |-> 1,
          copyright |-> v.copyright, license |-> v.license, years |-> v.years,
          content |-> add_header(v.copyright, v.license, v.years, content, v.template)]
    ELSE UpdateResult(update_header(changed_headers, content, v.copyright, v.license,
                                    v.years, v.template), v)

(***************************************************************************)
(* The LICENSE file.  generate_license_file (lines 220-241) renders the    *)
(* template assets/LICENSES/MIT.txt with current_year and writes the       *)
(* result to LICENSE.  The template is a file of the hook: the model       *)
(* knows of it the year text of its copyright line, which is either        *)
(* "{{ current_year }}" (since = 0) or "<since> - {{ current_year }}".     *)
(***************************************************************************)
LicenseFile(txt) == <<BodyLine(0, <<>>), CopyLine(DEFAULT_COPYRIGHT, txt), BodyLine(1, <<>>)>>

LicenseTemplates == {[since |-> 0], [since |-> EARLIEST_YEAR]}

\* template.render(current_year=current_year)
generate_license_file(template, current_year) ==
    LicenseFile(IF template.since = 0 THEN str(current_year).v
                ELSE YearStr(template.since) \o Dash \o str(current_year).v)

NoFile == <<[k |-> "absent", h |-> "", txt |-> <<>>, n |-> 0]>>

(***************************************************************************)
(* update_license_file, lines 132-176.  repo_license is the content of     *)
(* LICENSE or NoFile, hook_license_file the template of the hook.          *)
(* shutil.copyfile raises when LICENSE is missing.  The result tells       *)
(* whether the call raised, the flag it returns, the content of LICENSE    *)
(* and whether LICENSE_save is left behind.                                *)
(***************************************************************************)
\* The test of lines 152 and 162 with the comparison turned around.
is_default_license_other(arg_dict) == arg_dict.license # DEFAULT_LICENSE

\* update_license_file, lines 152 and 162, for a LICENSE file that exists.
is_default_license(arg_dict) == arg_dict.license = DEFAULT_LICENSE

\* update_license_file, lines 167-176: r is what update_year_range returned
\* for the generated file.
LicenseResult(save_repo_license, r) ==
    IF r.raise
    THEN [raise |-> TRUE, changed |-> 0, license |-> r.content, save |-> TRUE]
    ELSE [raise |-> FALSE,
          changed |-> IF ~check_same_content(save_repo_license, r.content)
                      THEN 1 ELSE r.changed,
          license |-> r.content, save |-> FALSE]

update_license_file(arg_dict, repo_license, hook_license_file) ==
    IF repo_license = NoFile
    THEN [raise |-> TRUE, changed |-> 0, license |-> repo_license, save |-> FALSE]
    ELSE IF is_default_license(arg_dict)
         THEN LicenseResult(repo_license,
                  update_year_range(0,
                      generate_license_file(hook_license_file, arg_dict.current_year),
                      str(arg_dict.start_year), str(arg_dict.current_year)))
         ELSE [raise |-> FALSE, changed |-> 0, license |-> repo_license, save |-> FALSE]

(***************************************************************************)
(* The default assets of the hook in the repository.  An asset is the      *)
(* directory entry .reuse/templates/ansys.jinja2 (template) or             *)
(* LICENSES/MIT.txt (license): "absent", a regular "file" the user put     *)
(* there, a file "generated" by the hook, a symbolic "link" to the asset   *)
(* of the hook, or a "dangling" link whose target is gone.  templates_dir  *)
(* and licenses_dir are the directories .reuse/templates and LICENSES:     *)
(* "absent", "empty" (nothing in it but the default asset, if that is      *)
(* there) or "others" (it has other entries).                              *)
(***************************************************************************)
\* A repository without the asset directories.
NoAssets ==
    [template |-> "absent", templates_dir |-> "absent",
     license |-> "absent", licenses_dir |-> "absent"]

\* Path.exists() follows symbolic links: False for a link without target.
Exists(entry) == entry \in {"file", "generated", "link"}

\* cleanup, lines 696-714, for one asset: unlinked if it exists.  The
\* directories stay: iterdir() returns a generator, which is never false.
CleanupEntry(entry) == IF Exists(entry) THEN "absent" ELSE entry

cleanup(repo) ==
    [repo EXCEPT !.template = CleanupEntry(repo.template),
                 !.license = CleanupEntry(repo.license)]

\* link_assets, line 204.
LinksTemplate(a) == a.custom_template = DEFAULT_TEMPLATE

\* link_assets, lines 208-212.
GeneratesLicense(a) ==
    a.custom_license = DEFAULT_LICENSE /\ ~a.ignore_license_check

\* generate_license_file, lines 238-241, on the entry LICENSES/MIT.txt:
\* open("w") makes a regular file where there is none.
GeneratedEntry(entry) == IF entry = "absent" THEN "generated" ELSE entry

\* Lines 215-216 and 264-265: the directory is made if it is not there.
MadeDir(dir) == IF dir = "absent" THEN "empty" ELSE dir

\* link_assets, lines 198-217, on the repository as cleanup left it.
\* dest.symlink_to(src), line 267, raises FileExistsError when the entry is
\* there, and then the license text is not reached.
LinkCleaned(repo, a) ==
    IF LinksTemplate(a) /\ repo.template # "absent"
    THEN [raise |-> TRUE, repo |-> repo]
    ELSE [raise |-> FALSE,
          repo |-> [template |-> IF LinksTemplate(a) THEN "link" ELSE repo.template,
                    license |-> IF GeneratesLicense(a)
                                THEN GeneratedEntry(repo.license)
                                ELSE repo.license,
                    templates_dir |-> IF LinksTemplate(a)
                                      THEN MadeDir(repo.templates_dir)
                                      ELSE repo.templates_dir,
                    licenses_dir |-> IF GeneratesLicense(a)
                                     THEN MadeDir(repo.licenses_dir)
                                     ELSE repo.licenses_dir]]

\* link_assets, lines 179-217.
link_assets(repo, a) == LinkCleaned(cleanup(repo), a)

(***************************************************************************)
(* The state.                                                              *)
(*   pc                    where main() is: "idle" before the first run,   *)
(*                         "parsed", "validated", "walk", then "done" or   *)
(*                         "aborted" (an exception left main)              *)
(*   err                   the exception that ended the run                *)
(*   args                  the parsed command line                         *)
(*   license, license_save the LICENSE file and whether LICENSE_save exists*)
(*   files                 the content of every file of the repository     *)
(*   idx                   how many listed files the walker has handled    *)
(*   changed_headers, license_return_code, rc   the flags and the result   *)
(*   calls                 what the walker did to each file of this run    *)
(*   runs, prev, start_files, start_license   the runs so far, the outcome *)
(*                         of the previous run, the repository when this   *)
(*                         run began                                       *)
(*   license_template      the file assets/LICENSES/MIT.txt of the hook    *)
(*   review                the state of a tech-review run (with SpecReview)*)
(*   assets                the default assets in the repository (with Spec) *)
(*   inp, out              argument and result of a function applied alone *)
(***************************************************************************)
VARIABLES pc, err, args, license, license_save, files, idx, changed_headers,
          license_return_code, rc, calls, runs, prev, start_files, start_license,
          license_template, review, assets, inp, out

vars == <<pc, err, args, license, license_save, files, idx, changed_headers,
          license_return_code, rc, calls, runs, prev, start_files, start_license,
          license_template, review, assets, inp, out>>

mainVars == <<pc, err, args, license, license_save, files, idx, changed_headers,
              license_return_code, rc, calls, runs, prev, start_files, start_license,
              license_template, review, assets>>

FileIds == {1, 2}

T0 == TextLine(0)
T1 == TextLine(1)
Body1 == BodyLine(1, <<>>)
Body2 == BodyLine(2, <<>>)

\* A file with the header of the default template and two body lines.
WithHeader(holder, txt) ==
    <<CopyLine(holder, txt), LicLine(DEFAULT_LICENSE), T0, T0, T1, Body1, Body2>>

\* The files a repository starts with.
InitContents ==
    { <<>>,
      <<Body1>>,
      <<BodyLine(1, YearStr(ThisYear - 2)), Body2>>,
      WithHeader(DEFAULT_COPYRIGHT, YearStr(ThisYear)),
      WithHeader(DEFAULT_COPYRIGHT, YearStr(ThisYear - 1)),
      WithHeader(DEFAULT_COPYRIGHT, RangeStr(ThisYear - 2, ThisYear - 1)),
      WithHeader(DEFAULT_COPYRIGHT, RangeStr(ThisYear - 1, ThisYear)),
      WithHeader("Other", YearStr(ThisYear - 1)),
      <<CopyLine(DEFAULT_COPYRIGHT, YearStr(ThisYear - 1)), T0, T0, T1, Body1>>,
      <<CopyLine(DEFAULT_COPYRIGHT, YearStr(ThisYear - 2)),
        CopyLine(DEFAULT_COPYRIGHT, YearStr(ThisYear - 1)),
        LicLine(DEFAULT_LICENSE), T0, T0, T1, Body1>>,
      <<CopyLine(DEFAULT_COPYRIGHT, YearStr(ThisYear - 1)), LicLine(DEFAULT_LICENSE),
        T0, T0, T1, BodyLine(1, YearStr(ThisYear - 2))>> }

InitContents2 == { <<>>, <<Body1>>, WithHeader(DEFAULT_COPYRIGHT, RangeStr(ThisYear - 1, ThisYear)) }

InitLicenses ==
    { NoFile,
      LicenseFile(YearStr(ThisYear)),
      LicenseFile(YearStr(ThisYear - 2)),
      LicenseFile(RangeStr(ThisYear - 1, ThisYear)) }

\* The values of --start_year: absent, or a text.
StartYearArgs ==
    { PyInt(DEFAULT_START_YEAR),
      PyStr(YearStr(ThisYear)),
      PyStr(YearStr(ThisYear - 1)),
      PyStr(YearStr(ThisYear + 1)),
      PyStr(YearStr(FirstYear)),
      PyStr(<<"x">>) }

ArgSets ==
    { [files |-> fl, custom_copyright |-> o[1], custom_template |-> o[2],
       custom_license |-> o[3], ignore_license_check |-> o[4], start_year |-> sy] :
        fl \in {<<1>>, <<1, 2>>},
        o \in { <<DEFAULT_COPYRIGHT, DEFAULT_TEMPLATE, DEFAULT_LICENSE, FALSE>>,
                <<DEFAULT_COPYRIGHT, DEFAULT_TEMPLATE, DEFAULT_LICENSE, TRUE>>,
                <<"Other", DEFAULT_TEMPLATE, DEFAULT_LICENSE, FALSE>>,
                <<DEFAULT_COPYRIGHT, "custom", "ECL-1.0", FALSE>> },
        sy \in StartYearArgs }

NoPrev == [done |-> FALSE, touched |-> {}]

\* tech-review is not running.
NoReview == [pc |-> "off"]

\* No function has been applied.
None == [done |-> FALSE]
Result(v) == [done |-> TRUE, val |-> v]

\* The default assets a repository starts with: none, or files of the user.
MainAssets ==
    { NoAssets,
      [template |-> "file", templates_dir |-> "empty",
       license |-> "file", licenses_dir |-> "others"] }

Init ==
    /\ pc = "idle"
    /\ err = "none"
    /\ args \in ArgSets
    /\ license \in InitLicenses
    /\ license_save = FALSE
    /\ files \in {f \in [FileIds -> InitContents] : f[2] \in InitContents2}
    /\ idx = 0
    /\ changed_headers = 0
    /\ license_return_code = 0
    /\ rc = -1
    /\ calls = <<>>
    /\ runs = 0
    /\ prev = NoPrev
    /\ start_files = files
    /\ start_license = license
    /\ license_template \in LicenseTemplates
    /\ review = NoReview
    /\ assets \in MainAssets
    /\ inp = None
    /\ out = None

\* main(), lines 749-759: the dictionary values.
Values ==
    [files |-> args.files, copyright |-> args.custom_copyright,
     template |-> args.custom_template, license |-> args.custom_license,
     start_year |-> args.start_year, current_year |-> PyInt(ThisYear)]

\* The hook is started (again) on the repository as the last run left it.
StartMain ==
    /\ pc \in {"idle", "done", "aborted"}
    /\ runs < MaxRuns
    /\ pc' = "parsed"
    /\ err' = "none"
    /\ runs' = runs + 1
    /\ prev' = [done |-> pc = "done",
                touched |-> {f \in FileIds : files[f] # start_files[f]}]
    /\ start_files' = files
    /\ start_license' = license
    /\ idx' = 0
    /\ changed_headers' = 0
    /\ license_return_code' = 0
    /\ rc' = -1
    /\ calls' = <<>>
    /\ UNCHANGED <<args, license, license_save, files, license_template, review,
                   assets, inp, out>>

\* main() with cleanup called before the check of --start_year.
ValidateStartYear_after_cleanup ==
    /\ pc = "parsed"
    /\ LET r == CheckStartYear(args.start_year, ThisYear) IN
         /\ pc' = IF r = "ok" THEN "validated" ELSE "aborted"
         /\ err' = IF r = "ok" THEN "none" ELSE r
    /\ assets' = cleanup(assets)
    /\ UNCHANGED <<args, license, license_save, files, idx, changed_headers,
                   license_return_code, rc, calls, runs, prev, start_files,
                   start_license, license_template, review, inp, out>>

\* main(), lines 738-747.
ValidateStartYear ==
    /\ pc = "parsed"
    /\ LET r == CheckStartYear(args.start_year, ThisYear) IN
         /\ pc' = IF r = "ok" THEN "validated" ELSE "aborted"
         /\ err' = IF r = "ok" THEN "none" ELSE r
    /\ UNCHANGED <<args, license, license_save, files, idx, changed_headers,
                   license_return_code, rc, calls, runs, prev, start_files,
                   start_license, license_template, review, assets, inp, out>>

\* main(), lines 762-781: r is what update_license_file returned and l what
\* link_assets came to, which is called when update_license_file returned.
LicenseUpdated(r, l) ==
    /\ license' = r.license
    /\ license_save' = r.save
    /\ license_return_code' = r.changed
    /\ assets' = IF r.raise THEN assets ELSE l.repo
    /\ pc' = IF r.raise \/ l.raise THEN "aborted" ELSE "walk"
    /\ err' = IF r.raise THEN "raise_in_update_license_file"
              ELSE IF l.raise THEN "FileExistsError" ELSE "none"

UpdateLicenseFile ==
    /\ pc = "validated"
    /\ LicenseUpdated(update_license_file(Values, license, license_template),
                      link_assets(assets, args))
    /\ UNCHANGED <<args, files, idx, changed_headers, rc, calls, runs, prev,
                   start_files, start_license, license_template, review, inp, out>>

\* The walker has handled file f: r is what came of it.
FileChecked(f, r) ==
    /\ files' = [files EXCEPT ![f] = r.content]
    /\ calls' = Append(calls,
          [file |-> f, pre |-> files[f], path |-> r.path,
           copyright |-> r.copyright, license |-> r.license, years |-> r.years,
           flag_in |-> changed_headers, flag_out |-> r.changed])
    /\ IF r.raise
       THEN /\ pc' = "aborted"
            /\ err' = "raise_in_update_year_range"
            /\ UNCHANGED <<idx, changed_headers>>
       ELSE /\ pc' = "walk"
            /\ err' = "none"
            /\ idx' = idx + 1
            /\ changed_headers' = r.changed

\* One listed file of the walker, lines 300-317 and 351-362.
CheckFile ==
    /\ pc = "walk"
    /\ idx < Len(args.files)
    /\ FileChecked(args.files[idx + 1],
                   check_file(changed_headers, files[args.files[idx + 1]],
                              set_variables(Values, args)))
    /\ UNCHANGED <<args, license, license_save, license_return_code, rc, runs, prev,
                   start_files, start_license, license_template, review, assets,
                   inp, out>>

\* main(), lines 794-798, after the last file.
Return ==
    /\ pc = "walk"
    /\ idx = Len(args.files)
    /\ LET file_return_code == changed_headers
           either == IF license_return_code # 0 THEN license_return_code
                     ELSE file_return_code
       IN rc' = IF either = 1 THEN 1 ELSE 0
    /\ assets' = cleanup(assets)
    /\ pc' = "done"
    /\ UNCHANGED <<err, args, license, license_save, files, idx, changed_headers,
                   license_return_code, calls, runs, prev, start_files,
                   start_license, license_template, review, inp, out>>

Next ==
    \/ StartMain
    \/ ValidateStartYear
    \/ UpdateLicenseFile
    \/ CheckFile
    \/ Return

Spec == Init /\ [][Next]_vars

(***************************************************************************)
(* Properties of a hook run.                                               *)
(***************************************************************************)
\* The listed files whose content differs from the content at the start of
\* the run.
ChangedFiles == {f \in FileIds : files[f] # start_files[f]}

\* C1: a run that completes returns 0 or 1, and it returns 1 exactly when the
\* LICENSE file or at least one listed file differs from what it was when the
\* run began.  What update_license_file returns depends on the template of
\* the hook: with the template "{{ current_year }}" the formula holds, with a
\* template "<since> - {{ current_year }}" a run with another start year
\* rewrites LICENSE to what it was and returns 1.
C1_ExitCode ==
    pc = "done" =>
        /\ rc \in {0, 1}
        /\ rc = 1 <=> (license # start_license \/ ChangedFiles # {})

\* The year text the claim C3 expects for a start year and the current year.
ExpectedYears(start_year, current_year) ==
    IF int(str(start_year).v) = current_year
    THEN PyStr(YearStr(current_year))
    ELSE PyStr(RangeStr(int(str(start_year).v), current_year))

\* C3: for every accepted start year s, defaulted or given on the command
\* line, the year text handed to the annotator is the single year c when
\* s = c and "s - c" otherwise.
C3_YearText ==
    \A i \in 1..Len(calls) :
        calls[i].years = ExpectedYears(args.start_year, ThisYear)

\* The walker found the file empty or without reuse metadata.
NeedsHeader(content) ==
    content = <<>> \/ ~(\E j \in 1..Len(content) : content[j].k \in {"copy", "lic"})

\* C4: for every listed file that is empty or has no reuse metadata the walker
\* takes the insert path, hands the annotator the configured copyright, the
\* computed year text and the configured license (no license when
\* --ignore_license_check is set), and the flag is 1 afterwards whatever it
\* was before.
C4_InsertPath ==
    \A i \in 1..Len(calls) :
        NeedsHeader(calls[i].pre) =>
            /\ calls[i].path = "insert"
            /\ calls[i].copyright = args.custom_copyright
            /\ calls[i].years = set_variables(Values, args).years
            /\ calls[i].license = IF args.ignore_license_check THEN {}
                                  ELSE {args.custom_license}
            /\ calls[i].flag_out = 1

\* C4, the case: a 0-byte file and a file without metadata got their header
\* in one run, the second one with the flag already 1 and with
\* --ignore_license_check set.
C4_Witness ==
    /\ Len(calls) = 2
    /\ args.ignore_license_check
    /\ NeedsHeader(calls[1].pre)
    /\ calls[2].pre = <<>>
    /\ calls[2].flag_in = 1
    /\ calls[2].path = "insert"

\* C5: when a run has added or updated the header of a file, the next run
\* with the same arguments on the repository as that run left it leaves every
\* such file as it is and its changed flag stays 0.
C5_Idempotent ==
    (pc = "done" /\ prev.done /\ prev.touched # {}) =>
        /\ changed_headers = 0
        /\ \A f \in prev.touched : files[f] = start_files[f]

\* The SPDX-License-Identifier lines of a file.
LicenseLines(content) == {j \in 1..Len(content) : content[j].k = "lic"}

\* C6: the update path hands the annotator an empty license list, and after
\* any number of runs no file holds a second SPDX-License-Identifier line.
C6_NoSecondLicenseLine ==
    /\ \A i \in 1..Len(calls) : calls[i].path = "update" => calls[i].license = {}
    /\ \A f \in FileIds : Cardinality(LicenseLines(files[f])) <= 1

(***************************************************************************)
(* Functions applied alone.  inp is the argument, out the result (None     *)
(* before the call); main() is not running.                                *)
(***************************************************************************)
NotRunningAddHeaders ==
    /\ pc = "fn"
    /\ err = "none"
    /\ args = "none"
    /\ license = NoFile
    /\ license_save = FALSE
    /\ files = <<>>
    /\ idx = 0
    /\ changed_headers = 0
    /\ license_return_code = 0
    /\ rc = -1
    /\ calls = <<>>
    /\ runs = 0
    /\ prev = NoPrev
    /\ start_files = <<>>
    /\ start_license = NoFile
    /\ license_template = [since |-> 0]
    /\ assets = NoAssets

NotRunning == NotRunningAddHeaders /\ review = NoReview

(***************************************************************************)
(* SpecValidate: the check of --start_year on arbitrary texts.             *)
(***************************************************************************)
ValidateYears == (EARLIEST_YEAR - 2)..(ThisYear + 2)

\* The texts tried as --start_year: a year, and a year with a character
\* added, dropped or replaced.
StartYearTexts ==
    UNION { { YearStr(y),
              <<"0">> \o YearStr(y),
              <<"0", "0">> \o YearStr(y),
              YearStr(y) \o <<"0">>,
              SubSeq(YearStr(y), 1, 3),
              SubSeq(YearStr(y), 3, 4),
              YearStr(y) \o <<"x">>,
              <<"-">> \o YearStr(y),
              <<" ">> \o YearStr(y),
              YearStr(y) \o <<" ">> } : y \in ValidateYears }
    \cup { <<>>, <<"x">> }

InitValidate ==
    /\ NotRunning
    /\ inp \in {PyStr(t) : t \in StartYearTexts} \cup {PyInt(DEFAULT_START_YEAR)}
    /\ out = None

ApplyCheckStartYear ==
    /\ ~out.done
    /\ out' = Result(CheckStartYear(inp, ThisYear))
    /\ UNCHANGED <<mainVars, inp>>

NextValidate == ApplyCheckStartYear

SpecValidate == InitValidate /\ [][NextValidate]_vars

\* C2: a --start_year text is accepted exactly when it is a 4-digit number y
\* with 1942 <= y <= current year; every other text ends the run with an
\* error.
C2_FourDigitYear ==
    (out.done /\ inp.ty = "str") =>
        (out.val = "ok" <=>
            /\ Len(inp.v) = 4
            /\ isdigit(inp.v)
            /\ int(inp.v) >= EARLIEST_YEAR
            /\ int(inp.v) <= ThisYear)

(***************************************************************************)
(* SpecReconcile: apply_hook_changes on a file before and after the        *)
(* annotator changed its header.                                           *)
(***************************************************************************)
CopyA == CopyLine(DEFAULT_COPYRIGHT, YearStr(ThisYear))
CopyB == CopyLine(DEFAULT_COPYRIGHT, RangeStr(ThisYear - 1, ThisYear))
CopyO == CopyLine("Other", YearStr(ThisYear - 1))
LicM == LicLine(DEFAULT_LICENSE)

OldHeaders == { <<CopyA>>, <<CopyA, LicM>>, <<CopyA, CopyO, LicM>>, <<CopyO, LicM>> }
NewHeaders == { <<CopyB>>, <<CopyB, LicM>>, <<CopyB, CopyO, LicM>>, <<CopyA, LicM>> }
Bodies == { <<>>, <<Body1>>, <<Body1, Body2>>, <<Body1, Body1>>, <<Body2, Body1, Body2>> }

InitReconcile ==
    /\ NotRunning
    /\ inp \in { [header |-> h, new_header |-> nh, body |-> b,
                  before |-> h \o b, after |-> nh \o b] :
                 h \in OldHeaders, nh \in NewHeaders, b \in Bodies }
    /\ out = None

ApplyHookChanges ==
    /\ ~out.done
    /\ out' = Result(apply_hook_changes(inp.before, inp.after))
    /\ UNCHANGED <<mainVars, inp>>

NextReconcile == ApplyHookChanges

SpecReconcile == InitReconcile /\ [][NextReconcile]_vars

\* C7: for a before-file of N header lines and M body lines and an after-file
\* in which only the header changed, to N' lines, apply_hook_changes leaves
\* the N' new header lines followed by exactly the M body lines.
C7_BodyPreserved ==
    out.done => out.val = inp.new_header \o inp.body

(***************************************************************************)
(* SpecYear: update_year_range on a file whose first year token is a year  *)
(* or a range, called as update_license_file calls it (two texts) and as   *)
(* update_header calls it (two texts, or a text and DEFAULT_START_YEAR).   *)
(***************************************************************************)
YearTokens ==
    {YearStr(a) : a \in Years} \cup
    {RangeStr(p[1], p[2]) : p \in {q \in Years \X Years : q[1] <= q[2]}}

YearArgs ==
    { <<PyStr(YearStr(p[1])), PyStr(YearStr(p[2]))>> :
        p \in {q \in (EARLIEST_YEAR..ThisYear) \X ((ThisYear - 1)..ThisYear) : q[1] <= q[2]} }
    \cup { <<PyStr(YearStr(DEFAULT_START_YEAR)), PyInt(DEFAULT_START_YEAR)>> }

InitYear ==
    /\ NotRunning
    /\ inp \in { [content |-> f, user_start_year |-> a[1], current_year |-> a[2]] :
                 f \in {LicenseFile(t) : t \in YearTokens} \cup
                       {<<CopyLine(DEFAULT_COPYRIGHT, t), LicM, T0,
                          BodyLine(1, YearStr(FirstYear))>> : t \in YearTokens},
                 a \in YearArgs }
    /\ out = None

ApplyUpdateYearRange ==
    /\ ~out.done
    /\ out' = Result(update_year_range(0, inp.content, inp.user_start_year,
                                        inp.current_year))
    /\ UNCHANGED <<mainVars, inp>>

NextYear == ApplyUpdateYearRange

SpecYear == InitYear /\ [][NextYear]_vars

\* The span the first year token of a file denotes: "a" is (a, a), "a - b"
\* is (a, b).
TokenSpan(content) ==
    LET m == get_years_from_file(content) IN <<int(m.start), int(m.end)>>

Min2(a, b) == IF a <= b THEN a ELSE b
Max2(a, b) == IF a >= b THEN a ELSE b

CurrentYears == (ThisYear - 1)..ThisYear

LicenseTokens ==
    {YearStr(a) : a \in FirstYear..ThisYear} \cup
    {RangeStr(p[1], p[2]) : p \in {q \in (FirstYear..ThisYear) \X CurrentYears : q[1] < q[2]}}

\* The start years a call can get for the current year c: the int default,
\* or the text of a year main() accepts.
StartYearsOf(c) ==
    {PyInt(c)} \cup {PyStr(YearStr(y)) : y \in EARLIEST_YEAR..c}

InitLicense ==
    /\ pc = "fn"
    /\ err = "none"
    /\ args = "none"
    /\ license \in {NoFile} \cup {LicenseFile(t) : t \in LicenseTokens}
    /\ license_save = FALSE
    /\ files = <<>>
    /\ idx = 0
    /\ changed_headers = 0
    /\ license_return_code = 0
    /\ rc = -1
    /\ calls = <<>>
    /\ runs = 0
    /\ prev = NoPrev
    /\ start_files = <<>>
    /\ start_license = license
    /\ license_template \in LicenseTemplates
    /\ review = NoReview
    /\ assets = NoAssets
    /\ inp = [start_years |-> {}, current_years |-> {}, custom |-> FALSE]
    /\ out = None

\* update_license_file was called with start year sy, current year c and
\* license lic: r is what it returned.
LicenseCalled(sy, c, lic, r) ==
    /\ license' = r.license
    /\ license_save' = r.save
    /\ license_return_code' = r.changed
    /\ err' = IF r.raise THEN "raise_in_update_license_file" ELSE "none"
    /\ out' = Result(r)
    /\ inp' = [start_year |-> int(str(sy).v), current_year |-> c,
               license |-> lic,
               start_years |-> inp.start_years \cup {int(str(sy).v)},
               current_years |-> inp.current_years \cup {c},
               custom |-> inp.custom \/ lic # DEFAULT_LICENSE]

CallUpdateLicenseFile ==
    /\ runs < MaxCalls
    /\ \E c \in CurrentYears, lic \in {DEFAULT_LICENSE, "ECL-1.0"} :
         /\ \A y \in inp.current_years : y <= c
         /\ \E sy \in StartYearsOf(c) :
              LicenseCalled(sy, c, lic,
                  update_license_file([license |-> lic, start_year |-> sy,
                                       current_year |-> PyInt(c)],
                                      license, license_template))
    /\ runs' = runs + 1
    /\ UNCHANGED <<pc, args, files, idx, changed_headers, rc, calls, prev,
                   start_files, start_license, license_template, review, assets>>

NextLicense == CallUpdateLicenseFile

SpecLicense == InitLicense /\ [][NextLicense]_vars

\* The last call found a LICENSE file, had the default license and returned.
DefaultCallDone ==
    /\ out.done
    /\ ~out.val.raise
    /\ inp.license = DEFAULT_LICENSE

\* C9: over every sequence of update_license_file calls the span in LICENSE
\* starts at the least of its original start and all start years supplied
\* so far, and ends at the greatest current year supplied so far.
C9_Monotone ==
    (DefaultCallDone /\ ~inp.custom) =>
        TokenSpan(license) =
            <<SetMin(inp.start_years \cup {TokenSpan(start_license)[1]}),
              SetMax(inp.current_years \cup {TokenSpan(start_license)[2]})>>

\* C9 as the code has it: the span in LICENSE after a call with the default
\* license is decided by that call alone: it ends at the call's current year
\* and starts at the call's start year or at its current year; the span
\* LICENSE had and the years of earlier calls are not kept.
C9_LastCallDecides ==
    DefaultCallDone =>
        /\ TokenSpan(license)[2] = inp.current_year
        /\ TokenSpan(license)[1] \in {inp.start_year, inp.current_year}

\* C9, the case: after a second call with the default license the span in
\* LICENSE starts later than the span LICENSE had at first, and later than a
\* start year supplied before.
C9_Witness ==
    /\ DefaultCallDone
    /\ ~inp.custom
    /\ runs >= 2
    /\ TokenSpan(start_license)[1] < TokenSpan(license)[1]
    /\ \E y \in inp.start_years : y < TokenSpan(license)[1]

\* C10: after each call of update_license_file with the default license,
\* start year s and current year c on a repository with a LICENSE file, the
\* copyright line of LICENSE carries "s - c" when s differs from c and the
\* single year c when s = c.  This depends on the template of the hook: it
\* holds with a template "<since> - {{ current_year }}" and fails with the
\* template "{{ current_year }}", which update_year_range never rewrites.
C10_LicenseYearText ==
    DefaultCallDone =>
        \E j \in 1..Len(license) :
            /\ license[j].k = "copy"
            /\ license[j].txt =
                 ExpectedYears(PyInt(inp.start_year), inp.current_year).v

\* C12: update_license_file acts only when the license is the default
\* license and a LICENSE file exists; a call with a custom license, or on a
\* repository without LICENSE, raises nothing, leaves LICENSE as it was,
\* leaves no other file behind and returns 0.
C12_ActsOnlyOnDefault ==
    [][(inp'.license # DEFAULT_LICENSE \/ license = NoFile) =>
          /\ err' = "none"
          /\ license' = license
          /\ license_save' = FALSE
          /\ license_return_code' = 0]_vars

(***************************************************************************)
(* SpecBackup: one call of update_license_file on a repository whose       *)
(* LICENSE file may be read-only.  generate_license_file opens LICENSE for *)
(* writing (line 239); on a file that cannot be opened for writing open()  *)
(* raises PermissionError, which nothing between the copy of line 145 and  *)
(* the unlink of line 174 catches.  inp is the call, out its result.       *)
(***************************************************************************)
update_license_file_on(arg_dict, repo_license, hook_license_file, writable) ==
    IF repo_license # NoFile /\ is_default_license(arg_dict) /\ ~writable
    THEN [raise |-> TRUE, changed |-> 0, license |-> repo_license, save |-> TRUE]
    ELSE update_license_file(arg_dict, repo_license, hook_license_file)

InitBackup ==
    /\ NotRunning
    /\ inp \in [license : {DEFAULT_LICENSE, "ECL-1.0"},
                start_year : StartYearsOf(ThisYear),
                current_year : {PyInt(ThisYear)},
                repo_license : {NoFile} \cup {LicenseFile(t) : t \in LicenseTokens},
                hook_license_file : LicenseTemplates,
                writable : BOOLEAN]
    /\ out = None

ApplyUpdateLicenseFile ==
    /\ ~out.done
    /\ out' = Result(update_license_file_on(inp, inp.repo_license,
                                            inp.hook_license_file, inp.writable))
    /\ UNCHANGED <<mainVars, inp>>

NextBackup == ApplyUpdateLicenseFile

SpecBackup == InitBackup /\ [][NextBackup]_vars

\* C13: the copy LICENSE_save that update_license_file makes never outlives
\* the call: however the call ends, also with an error raised while LICENSE
\* is regenerated or its years are updated, the copy has been deleted.
C13_BackupDeleted ==
    out.done => ~out.val.save

(***************************************************************************)
(* SpecWalk: the two strategies of the walker, recursive_file_check (lines *)
(* 270-319) and non_recursive_file_check (lines 322-364), applied to the   *)
(* same file list, flag and repository.  A walk is the record of what a    *)
(* strategy did: the exception that ended it ("none" when it returned),    *)
(* the flag, the files and the insert/update calls in order.               *)
(***************************************************************************)
\* sys.getrecursionlimit(): the deepest stack of Python frames there can be.
RecursionLimit == 6

\* The longest file list main() hands to recursive_file_check, line 788.
MaxWalkLen == RecursionLimit - 2

\* The walk after one file: r is what came of the file f.
WalkOn(w, f, r) ==
    [raise |-> IF r.raise THEN "AttributeError" ELSE "none",
     changed |-> IF r.raise THEN w.changed ELSE r.changed,
     files |-> [w.files EXCEPT ![f] = r.content],
     calls |-> Append(w.calls, [file |-> f, path |-> r.path])]

\* Lines 304-317 and 353-362: one file of either strategy.
WalkStep(w, f, v) == WalkOn(w, f, check_file(w.changed, w.files[f], v))

\* recursive_file_check(changed_headers, obj, values, args, count).  main()
\* runs in a frame of its own, so the call with count runs at depth
\* count + 2, and the calls it makes (set_variables, line 296, is the first)
\* need depth count + 3: past the recursion limit Python raises
\* RecursionError.
RECURSIVE recursive_file_check(_, _, _, _)
RecurseAfter(w, v, pre_commit_files, count) ==
    IF w.raise # "none" THEN w
    ELSE recursive_file_check(w, v, pre_commit_files, count + 1)

recursive_file_check(w, v, pre_commit_files, count) ==
    IF count + 3 > RecursionLimit
    THEN [w EXCEPT !.raise = "RecursionError"]
    ELSE IF count < Len(pre_commit_files)
         THEN RecurseAfter(WalkStep(w, pre_commit_files[count + 1], v), v,
                           pre_commit_files, count)
         ELSE w

\* non_recursive_file_check(changed_headers, obj, values, args): the loop of
\* lines 351-362 from the file at position i on.
RECURSIVE non_recursive_file_check_from(_, _, _, _)
LoopAfter(w, v, pre_commit_files, i) ==
    IF w.raise # "none" THEN w
    ELSE non_recursive_file_check_from(w, v, pre_commit_files, i + 1)

non_recursive_file_check_from(w, v, pre_commit_files, i) ==
    IF i <= Len(pre_commit_files)
    THEN LoopAfter(WalkStep(w, pre_commit_files[i], v), v, pre_commit_files, i)
    ELSE w

non_recursive_file_check(w, v, pre_commit_files) ==
    non_recursive_file_check_from(w, v, pre_commit_files, 1)

\* main(), lines 788-791: the strategy is chosen by the number of files.
file_checks(w, v, pre_commit_files) ==
    IF Len(pre_commit_files) <= RecursionLimit - 2
    THEN recursive_file_check(w, v, pre_commit_files, 0)
    ELSE non_recursive_file_check(w, v, pre_commit_files)

\* The walk before the first file.
StartWalk(changed, fs) ==
    [raise |-> "none", changed |-> changed, files |-> fs, calls |-> <<>>]

RECURSIVE FileLists(_)
FileLists(n) ==
    IF n = 0 THEN {<<>>}
    ELSE FileLists(n - 1) \cup
         {Append(l, f) : l \in {x \in FileLists(n - 1) : Len(x) = n - 1}, f \in FileIds}

\* The arguments of the walks: the option sets without the file list.
WalkOptions ==
    { [custom_copyright |-> DEFAULT_COPYRIGHT, custom_template |-> DEFAULT_TEMPLATE,
       custom_license |-> DEFAULT_LICENSE, ignore_license_check |-> FALSE,
       start_year |-> PyInt(DEFAULT_START_YEAR)],
      [custom_copyright |-> DEFAULT_COPYRIGHT, custom_template |-> DEFAULT_TEMPLATE,
       custom_license |-> DEFAULT_LICENSE, ignore_license_check |-> TRUE,
       start_year |-> PyStr(YearStr(ThisYear - 1))] }

\* main(), lines 749-759, for the options a.
WalkValues(a) ==
    [copyright |-> a.custom_copyright, template |-> a.custom_template,
     license |-> a.custom_license, start_year |-> a.start_year,
     current_year |-> PyInt(ThisYear)]

InitWalk ==
    /\ NotRunning
    /\ inp \in [changed_headers : {0, 1}, pre_commit_files : FileLists(MaxWalkLen + 1),
                options : WalkOptions, files : [FileIds -> InitContents2]]
    /\ out = None

ApplyFileChecks ==
    /\ ~out.done
    /\ out' = Result(
         [recursive |->
            recursive_file_check(StartWalk(inp.changed_headers, inp.files),
                                 set_variables(WalkValues(inp.options), inp.options),
                                 inp.pre_commit_files, 0),
          non_recursive |->
            non_recursive_file_check(StartWalk(inp.changed_headers, inp.files),
                                     set_variables(WalkValues(inp.options), inp.options),
                                     inp.pre_commit_files),
          main |->
            file_checks(StartWalk(inp.changed_headers, inp.files),
                        set_variables(WalkValues(inp.options), inp.options),
                        inp.pre_commit_files)])
    /\ UNCHANGED <<mainVars, inp>>

NextWalk == ApplyFileChecks

SpecWalk == InitWalk /\ [][NextWalk]_vars

\* C11: recursive_file_check started at count 0 and non_recursive_file_check
\* make the same insert and update calls on the same files in the same
\* order, leave the same files and return the same flag (or end the same
\* way), for every file list, flag and repository.
C11_SameWalk ==
    out.done => out.val.recursive = out.val.non_recursive

(***************************************************************************)
(* SpecAssets: the default assets of the hook in the repository, over      *)
(* several runs of main().  files.template is the directory entry          *)
(* .reuse/templates/ansys.jinja2 and files.license the entry               *)
(* LICENSES/MIT.txt, files.templates_dir and files.licenses_dir their      *)
(* directories.  start_files is the repository when the run began, inp the *)
(* options of the run, pc where the run is: "linked" after link_assets,    *)
(* "done" after main() returned, "aborted" after an exception.             *)
(***************************************************************************)
AssetOptions ==
    [custom_template : {DEFAULT_TEMPLATE, "custom"},
     custom_license : {DEFAULT_LICENSE, "ECL-1.0"},
     ignore_license_check : BOOLEAN]

assetFrame == <<args, license, license_save, idx, changed_headers,
                license_return_code, rc, calls, prev, start_license,
                license_template, review, assets, out>>

\* A default asset and its directory: an entry is in a directory.
AssetStates ==
    { <<"absent", "absent">>, <<"absent", "empty">>, <<"absent", "others">>,
      <<"file", "empty">>, <<"file", "others">> }

InitAssets ==
    /\ pc = "idle"
    /\ err = "none"
    /\ args = "none"
    /\ license = NoFile
    /\ license_save = FALSE
    /\ files \in { [template |-> t[1], templates_dir |-> t[2],
                     license |-> l[1], licenses_dir |-> l[2]] :
                    t \in AssetStates, l \in AssetStates }
    /\ idx = 0
    /\ changed_headers = 0
    /\ license_return_code = 0
    /\ rc = -1
    /\ calls = <<>>
    /\ runs = 0
    /\ prev = NoPrev
    /\ start_files = files
    /\ start_license = NoFile
    /\ license_template = [since |-> 0]
    /\ review = NoReview
    /\ assets = NoAssets
    /\ inp \in AssetOptions
    /\ out = None

\* r is what link_assets came to.
AssetsLinked(r) ==
    /\ files' = r.repo
    /\ pc' = IF r.raise THEN "aborted" ELSE "linked"
    /\ err' = IF r.raise THEN "FileExistsError" ELSE "none"

\* main() up to line 781, with the options a.
LinkAssets ==
    /\ pc \in {"idle", "done", "aborted"}
    /\ runs < MaxCalls
    /\ runs' = runs + 1
    /\ start_files' = files
    /\ \E a \in AssetOptions :
         /\ inp' = a
         /\ AssetsLinked(link_assets(files, a))
    /\ UNCHANGED assetFrame

\* main(), lines 788-798: the walker returns, cleanup, return.
CleanupAndReturn ==
    /\ pc = "linked"
    /\ files' = cleanup(files)
    /\ pc' = "done"
    /\ UNCHANGED <<err, runs, inp, start_files, assetFrame>>

\* main(), lines 788-791: the walker ends with an exception (RecursionError
\* in recursive_file_check on a long file list, for one), so that line 794
\* is not reached.
WalkerRaises ==
    /\ pc = "linked"
    /\ pc' = "aborted"
    /\ err' = "RecursionError"
    /\ UNCHANGED <<files, runs, inp, start_files, assetFrame>>

\* Between two runs the environment of the hook is replaced (hook_loc, line
\* 196, is another directory and the old one is removed): a link to the old
\* asset loses its target.
HookReinstalled ==
    /\ pc \in {"done", "aborted"}
    /\ files.template = "link"
    /\ files' = [files EXCEPT !.template = "dangling"]
    /\ UNCHANGED <<pc, err, runs, inp, start_files, assetFrame>>

NextAssets ==
    \/ LinkAssets
    \/ CleanupAndReturn
    \/ WalkerRaises
    \/ HookReinstalled

SpecAssets == InitAssets /\ [][NextAssets]_vars

\* C14: during a run the default template is in the repository only if
\* --custom_template is the default template, and the default license text
\* only if --custom_license is the default license and the license check is
\* not disabled; stale default assets are removed before linking, so linking
\* never meets one; and when main() has returned neither default asset is in
\* the repository.
C14_AssetLinkage ==
    /\ err # "FileExistsError"
    /\ pc = "linked" =>
         /\ files.template # "absent" => LinksTemplate(inp)
         /\ files.license # "absent" => GeneratesLicense(inp)
    /\ pc = "done" => files.template = "absent" /\ files.license = "absent"

(***************************************************************************)
(* tech-review (tech_review.py).  The repository is a record: dirs, the    *)
(* directories at its root; setup_py, whether setup.py exists; pyproject,  *)
(* what pyproject.toml holds; files, the content of each checklist file.   *)
(* A content records where it comes from (kind: "absent", "generated" by   *)
(* the hook from its template, written by the "user"), for a generated     *)
(* content the file and the values it was rendered with, and the full      *)
(* license names its lines contain.                                        *)
(***************************************************************************)
\* class Directories, lines 73-79.
Directories == <<".github", "doc", "src", "tests">>

\* class Filenames, lines 61-70.
Filenames ==
    <<"AUTHORS", "CODE_OF_CONDUCT.md", "CONTRIBUTING.md", "CONTRIBUTORS.md",
      "LICENSE", "README", "dependabot.yml">>

\* The paths the checklist files can have in the repository.
FilePaths ==
    {"AUTHORS", "AUTHORS.md", "CODE_OF_CONDUCT.md", "CONTRIBUTING.md",
     "CONTRIBUTORS.md", "LICENSE", "README.md", "README.rst", "dependabot.yml"}

SeqRange(q) == {q[i] : i \in 1..Len(q)}

\* The value None, which --product has when it is not given.
PyNone == [ty |-> "NoneType"]

AbsentFile ==
    [kind |-> "absent", file |-> "", project_name |-> "", config_file |-> "",
     names |-> {}]

UserFile(names) ==
    [kind |-> "user", file |-> "", project_name |-> "", config_file |-> "",
     names |-> names]

\* pathlib.Path.exists on a checklist file.
FileExists(repo, path) == repo.files[path].kind # "absent"

\* The "licenses" list of the SPDX license list, as far as the model needs
\* it: a current license id and a deprecated one.
SpdxLicenses ==
    { [licenseId |-> DEFAULT_LICENSE, name |-> "MIT License",
       isDeprecatedLicenseId |-> FALSE],
      [licenseId |-> "GPL-3.0", name |-> "GNU General Public License v3.0 only",
       isDeprecatedLicenseId |-> TRUE] }

\* restructure_json, lines 365-388: license id to name, for the licenses
\* that are not deprecated.
restructure_json(licenses) ==
    [id \in {l.licenseId : l \in {x \in licenses : ~x.isDeprecatedLicenseId}} |->
        (CHOOSE l \in licenses : l.licenseId = id /\ ~l.isDeprecatedLicenseId).name]

\* licenses.json after the download and restructure_json.
LicenseJson == restructure_json(SpdxLicenses)

\* A failed check: kind tells which, what names the directory or file, and
\* fixed whether the hook made the missing thing.
Failure(kind, what, fixed) == [kind |-> kind, what |-> what, fixed |-> fixed]

\* check_dirs_exist without the mkdir of line 109.
check_dirs_exist_no_mkdir(rv) ==
    [rv EXCEPT
       !.is_compliant = rv.is_compliant /\ SeqRange(Directories) \subseteq rv.repo.dirs,
       !.failures = rv.failures \cup
           {Failure("dir", d, TRUE) : d \in SeqRange(Directories) \ rv.repo.dirs}]

\* check_dirs_exist, lines 82-115, on the review state rv.
check_dirs_exist(rv) ==
    [rv EXCEPT
       !.is_compliant = rv.is_compliant /\ SeqRange(Directories) \subseteq rv.repo.dirs,
       !.failures = rv.failures \cup
           {Failure("dir", d, TRUE) : d \in SeqRange(Directories) \ rv.repo.dirs},
       !.repo.dirs = rv.repo.dirs \cup SeqRange(Directories)]

\* re.match(r"^ansys-[a-z]+-[a-z]+$", name), line 223, on the names tried.
NameFollowsConvention(name) == name = "ansys-tech-review"

\* check_setup_py returning True instead of the flag it was given.
check_setup_py_compliant(rv) ==
    [rv EXCEPT !.project_name = "", !.config_file = "setuptools",
               !.is_compliant = TRUE]

\* check_setup_py, lines 293-326: prints what to check by hand.
check_setup_py(rv) ==
    [rv EXCEPT !.project_name = "", !.config_file = "setuptools"]

\* check_pyproject_toml, lines 212-226: the project name, checked unless
\* --non_compliant_name is given.
CheckName(rv, name) ==
    IF rv.args.non_compliant_name
    THEN [rv EXCEPT !.project_name = "", !.config_file = "pyproject"]
    ELSE [rv EXCEPT
            !.project_name = name,
            !.config_file = "pyproject",
            !.is_compliant = rv.is_compliant /\ NameFollowsConvention(name),
            !.failures = rv.failures \cup
                IF NameFollowsConvention(name) THEN {}
                ELSE {Failure("name", "pyproject.toml", FALSE)}]

\* The --author_maint_name and --author_maint_email of the run, which the
\* runs tried leave at their defaults (lines 45, 48, 651-663).
AuthorMaintArg(value) ==
    IF value = "name" THEN DEFAULT_AUTHOR_MAINT_NAME ELSE DEFAULT_AUTHOR_MAINT_EMAIL

\* The "authors name", "maintainers email", ... of the messages, lines 246,
\* 252, 256.
MetadataName(key, value) ==
    IF key = "authors"
    THEN IF value = "name" THEN "authors name" ELSE "authors email"
    ELSE IF value = "name" THEN "maintainers name" ELSE "maintainers email"

\* check_auth_maint, lines 262-290.
check_auth_maint(rv, project_value, arg_value, err_string) ==
    IF project_value # arg_value
    THEN [rv EXCEPT !.is_compliant = FALSE,
                    !.failures = rv.failures \cup {Failure("is not", err_string, FALSE)}]
    ELSE rv

\* check_pyproject_toml, lines 241-257: one turn of the loop over authors
\* and maintainers, name and email.  entry is what project.get(key, "DNE")
\* gave: without the key it is the str "DNE", whose [0] is the str "D", and
\* "D".get raises AttributeError (line 242).
CheckMetadata(rv, key, value, entry) ==
    IF rv.pc = "raised" THEN rv
    ELSE IF ~entry.key
    THEN [rv EXCEPT !.pc = "raised", !.err = "AttributeError"]
    ELSE IF entry[value] = "DNE"
    THEN [rv EXCEPT !.is_compliant = FALSE,
                    !.failures = rv.failures \cup
                        {Failure("does not exist", MetadataName(key, value), FALSE)}]
    ELSE check_auth_maint(rv, entry[value], AuthorMaintArg(value),
                          MetadataName(key, value))

\* check_pyproject_toml, lines 237-257: product(category, metadata) in its
\* order.
CheckAuthorsMaintainers(rv, project) ==
    CheckMetadata(
      CheckMetadata(
        CheckMetadata(
          CheckMetadata(rv, "authors", "name", project.authors),
          "authors", "email", project.authors),
        "maintainers", "name", project.maintainers),
      "maintainers", "email", project.maintainers)

\* check_pyproject_toml, lines 179-259.  A pyproject.toml without a
\* [project] table gives project = None (line 216), and None.get raises
\* AttributeError (line 221 or 229).  The version of the files tried is as
\* the hook wants it.
check_pyproject_toml(rv) ==
    IF rv.repo.pyproject.project
    THEN CheckAuthorsMaintainers(CheckName(rv, rv.repo.pyproject.name),
                                 rv.repo.pyproject)
    ELSE [rv EXCEPT !.pc = "raised", !.err = "AttributeError"]

\* check_config_file looking at pyproject.toml first.
check_config_file_pyproject_first(rv) ==
    IF rv.repo.pyproject.exists
    THEN check_pyproject_toml(rv)
    ELSE IF rv.repo.setup_py
         THEN check_setup_py(rv)
         ELSE [rv EXCEPT !.project_name = "", !.config_file = ""]

\* check_config_file, lines 118-176.
check_config_file(rv) ==
    IF rv.repo.setup_py
    THEN check_setup_py(rv)
    ELSE IF rv.repo.pyproject.exists
         THEN check_pyproject_toml(rv)
         ELSE [rv EXCEPT !.project_name = "", !.config_file = ""]

\* generate_file_from_jinja, lines 512-561: the template of the file
\* rendered with the values of this run.  Of the LICENSE template the model
\* knows which license names its text contains (rv.template_names).
generate_file_from_jinja(rv, file) ==
    [kind |-> "generated", file |-> file, project_name |-> rv.project_name,
     config_file |-> rv.config_file,
     names |-> IF file = "LICENSE" THEN rv.template_names ELSE {}]

\* check_file_exists, lines 454-464: the name the file goes by.
FileName(repo, file) ==
    IF file = "README"
    THEN IF FileExists(repo, "README.md") THEN "README.md" ELSE "README.rst"
    ELSE file

\* check_file_exists, lines 455-473: the path that is tested.
RepoFilePath(repo, file) ==
    IF file = "AUTHORS" /\ FileExists(repo, "AUTHORS.md") THEN "AUTHORS.md"
    ELSE FileName(repo, file)

\* check_file_exists, lines 479-501: whether a missing file is written from
\* its template.
WritesMissing(rv, file) ==
    IF rv.config_file = "setuptools"
    THEN file = "dependabot.yml"
    ELSE ~ \/ file = "README" /\ rv.args.product = PyNone
           \/ file = "README" /\ rv.project_name = ""
           \/ file = "dependabot.yml" /\ rv.config_file = ""
           \/ file = "AUTHORS" /\ rv.project_name = ""

\* check_file_exists, lines 476-501: the file does not exist.
MissingFile(rv, file, path, writes) ==
    [rv EXCEPT
       !.is_compliant = FALSE,
       !.failures = rv.failures \cup {Failure("missing", file, writes)},
       !.repo.files[path] =
           IF writes THEN generate_file_from_jinja(rv, FileName(rv.repo, file))
           ELSE rv.repo.files[path]]

\* download_license_json, lines 329-362, with the outcome of requests.get:
\* 200 with the license list, "200_not_json" for a response with status 200
\* whose body is not JSON (the page of a proxy, a truncated body), another
\* status, or "error" for a request that raises (connection error,
\* timeout).  The body of a 200 response is written to the file (lines
\* 353-354) before restructure_json reads it (line 357): json.load (line
\* 378) raises on a body that is not JSON, and the file stays as written.
download_license_json(rv, outcome) ==
    IF rv.cached THEN [rv EXCEPT !.downloaded = TRUE]
    ELSE IF outcome = "error"
         THEN [rv EXCEPT !.pc = "raised", !.err = "ConnectionError",
                         !.outcome = outcome]
         ELSE IF outcome = "200_not_json"
         THEN [rv EXCEPT !.cached = TRUE, !.raw = TRUE, !.pc = "raised",
                         !.err = "JSONDecodeError", !.outcome = outcome]
         ELSE IF outcome = "200"
              THEN [rv EXCEPT !.cached = TRUE, !.downloaded = TRUE,
                              !.outcome = outcome]
              ELSE [rv EXCEPT !.downloaded = FALSE, !.outcome = outcome]

\* check_file_content, lines 623-642: rv is the state after the download.
\* json.load (line 626) raises on a file that is not JSON.
CheckLicenseLine(rv, content) ==
    IF rv.pc = "raised" \/ ~rv.downloaded THEN rv
    ELSE IF rv.raw
         THEN [rv EXCEPT !.pc = "raised", !.err = "JSONDecodeError"]
    ELSE IF rv.args.license \notin DOMAIN LicenseJson
         THEN [rv EXCEPT !.pc = "raised", !.err = "KeyError"]
         ELSE IF LicenseJson[rv.args.license] \in content.names THEN rv
              ELSE [rv EXCEPT !.is_compliant = FALSE,
                              !.failures = rv.failures \cup
                                  {Failure("license", "LICENSE", FALSE)}]

\* check_file_content without the comparison of CONTRIBUTORS.md.
check_file_content_license_only(rv, file, content, generated_content, outcome) ==
    IF file = "LICENSE"
    THEN CheckLicenseLine(download_license_json(rv, outcome), content)
    ELSE rv

\* check_file_content, lines 585-644.
check_file_content(rv, file, content, generated_content, outcome) ==
    IF file = "CONTRIBUTORS.md" /\ content = generated_content
    THEN [rv EXCEPT !.is_compliant = FALSE,
                    !.failures = rv.failures \cup
                        {Failure("contributors", "CONTRIBUTORS.md", FALSE)}]
    ELSE IF file = "LICENSE"
         THEN CheckLicenseLine(download_license_json(rv, outcome), content)
         ELSE rv

\* check_file_exists, lines 454-507: the file is at path, or is not.
CheckPath(rv, file, path, outcome) ==
    IF ~FileExists(rv.repo, path)
    THEN MissingFile(rv, file, path, WritesMissing(rv, file))
    ELSE IF file \in {"CONTRIBUTORS.md", "LICENSE"}
         THEN check_file_content(rv, file, rv.repo.files[path],
                                 generate_file_from_jinja(rv, file), outcome)
         ELSE rv

\* check_file_exists, lines 453-507: one file of the loop.
check_file_exists(rv, file, outcome) ==
    CheckPath(rv, file, RepoFilePath(rv.repo, file), outcome)

(***************************************************************************)
(* SpecReview: runs of tech-review main() (lines 647-738) on one           *)
(* repository, one after the other.  review is the state of the run:       *)
(*   pc           "idle", then "dirs", "config", "files" as main() goes    *)
(*                on, "done" after it returned, "raised" after an error    *)
(*   is_compliant, project_name, config_file, rc   as in main()            *)
(*   idx          how many entries of Filenames have been handled          *)
(*   failures     the checks that failed in this run                       *)
(*   downloaded, outcome   what download_license_json returned, and what   *)
(*                became of the request                                    *)
(*   repo, cached the repository, and whether assets/licenses.json exists  *)
(*   args, template_names   the options, and the license names in the      *)
(*                LICENSE template of the hook                             *)
(*   runs, prev   the number of runs, and how the run before ended         *)
(***************************************************************************)
\* The number of runs of tech-review.
MaxReviews == 2

AllDirs == SeqRange(Directories)

\* The first entry of authors or of maintainers; "DNE" for a field the
\* entry does not have.
Entry(name, email) == [key |-> TRUE, name |-> name, email |-> email]
\* The table has no authors key, or no maintainers key.
NoKey == [key |-> FALSE, name |-> "DNE", email |-> "DNE"]
AnsysEntry == Entry(DEFAULT_AUTHOR_MAINT_NAME, DEFAULT_AUTHOR_MAINT_EMAIL)

PyprojectAbsent ==
    [exists |-> FALSE, project |-> FALSE, name |-> "", authors |-> NoKey,
     maintainers |-> NoKey]
\* "# Empty file", as the tests write it: no [project] table.
PyprojectEmpty ==
    [exists |-> TRUE, project |-> FALSE, name |-> "", authors |-> NoKey,
     maintainers |-> NoKey]
PyprojectWith(name, authors, maintainers) ==
    [exists |-> TRUE, project |-> TRUE, name |-> name, authors |-> authors,
     maintainers |-> maintainers]
PyprojectNamed(name) == PyprojectWith(name, AnsysEntry, AnsysEntry)

ConfigFiles ==
    { [setup_py |-> FALSE, pyproject |-> PyprojectAbsent],
      [setup_py |-> TRUE, pyproject |-> PyprojectAbsent],
      [setup_py |-> TRUE, pyproject |-> PyprojectEmpty],
      [setup_py |-> FALSE, pyproject |-> PyprojectEmpty],
      [setup_py |-> FALSE, pyproject |-> PyprojectNamed("ansys-tech-review")],
      [setup_py |-> FALSE, pyproject |-> PyprojectNamed("ansys-pre-commit-hooks")],
      [setup_py |-> FALSE,
       pyproject |-> PyprojectWith("ansys-tech-review", Entry("DNE", "DNE"),
                                   Entry("DNE", "DNE"))],
      [setup_py |-> FALSE,
       pyproject |-> PyprojectWith("ansys-tech-review",
                                   Entry("Someone", DEFAULT_AUTHOR_MAINT_EMAIL),
                                   Entry(DEFAULT_AUTHOR_MAINT_NAME, "DNE"))],
      [setup_py |-> FALSE,
       pyproject |-> PyprojectWith("ansys-tech-review", NoKey, AnsysEntry)],
      [setup_py |-> FALSE,
       pyproject |-> PyprojectWith("ansys-tech-review", AnsysEntry, NoKey)] }

NoFiles == [p \in FilePaths |-> AbsentFile]

\* Every checklist file is there, written by the user.
AllFiles ==
    [p \in FilePaths |->
        IF p \in {"AUTHORS.md", "README.md"} THEN AbsentFile
        ELSE IF p = "LICENSE" THEN UserFile({"MIT License"})
        ELSE UserFile({})]

\* The checklist files a repository starts with.
InitFiles ==
    { NoFiles,
      AllFiles,
      [AllFiles EXCEPT !["CONTRIBUTORS.md"] = AbsentFile],
      [AllFiles EXCEPT !["LICENSE"] = UserFile({})],
      [AllFiles EXCEPT !["AUTHORS"] = AbsentFile, !["AUTHORS.md"] = UserFile({}),
                       !["README.rst"] = AbsentFile, !["README.md"] = UserFile({}),
                       !["dependabot.yml"] = AbsentFile],
      [NoFiles EXCEPT !["LICENSE"] = UserFile({"MIT License"})] }

ReviewArgs ==
    [product : {PyNone, PyStr("techreview")},
     non_compliant_name : BOOLEAN,
     license : {DEFAULT_LICENSE, "GPL-3.0"}]

NoRun == [rc |-> -1, failures |-> {}, downloaded |-> FALSE]

reviewFrame ==
    <<pc, err, args, license, license_save, files, idx, changed_headers,
      license_return_code, rc, calls, runs, prev, start_files, start_license,
      license_template, assets, inp, out>>

InitReview ==
    /\ NotRunningAddHeaders
    /\ inp = None
    /\ out = None
    /\ \E d \in {AllDirs, AllDirs \ {"doc"}, {}}, c \in ConfigFiles, f \in InitFiles,
          a \in ReviewArgs, j \in BOOLEAN, t \in {{}, {"MIT License"}} :
         review = [pc |-> "idle", err |-> "none", runs |-> 0, is_compliant |-> TRUE,
                   project_name |-> "", config_file |-> "", idx |-> 0, rc |-> -1,
                   failures |-> {}, downloaded |-> FALSE, outcome |-> "none",
                   repo |-> [dirs |-> d, setup_py |-> c.setup_py,
                             pyproject |-> c.pyproject, files |-> f],
                   cached |-> j, raw |-> FALSE, args |-> a, template_names |-> t, prev |-> NoRun]

\* main(), lines 647-703: a run begins.
StartReview ==
    /\ review.pc \in {"idle", "done", "raised"}
    /\ review.runs < MaxReviews
    /\ review' = [review EXCEPT
                    !.pc = "dirs", !.err = "none", !.runs = review.runs + 1,
                    !.is_compliant = TRUE, !.project_name = "", !.config_file = "",
                    !.idx = 0, !.rc = -1, !.failures = {}, !.downloaded = FALSE,
                    !.outcome = "none",
                    !.prev = IF review.pc = "done"
                             THEN [rc |-> review.rc, failures |-> review.failures,
                                   downloaded |-> review.downloaded]
                             ELSE NoRun]
    /\ UNCHANGED reviewFrame

\* main(), lines 705-708.
CheckDirsExist ==
    /\ review.pc = "dirs"
    /\ review' = [check_dirs_exist(review) EXCEPT !.pc = "config"]
    /\ UNCHANGED reviewFrame

\* The run goes on with the files unless the check raised.
ToFiles(rv) == IF rv.pc = "raised" THEN rv ELSE [rv EXCEPT !.pc = "files"]

\* main(), lines 710-713.
CheckConfigFile ==
    /\ review.pc = "config"
    /\ review' = ToFiles(check_config_file(review))
    /\ UNCHANGED reviewFrame

\* One more file of the loop is done, unless the check raised.
NextFile(rv) == IF rv.pc = "raised" THEN rv ELSE [rv EXCEPT !.idx = rv.idx + 1]

\* main(), lines 723-734: one file of check_file_exists; outcome is what
\* becomes of the request for the license list, if one is made.
CheckFileExists ==
    /\ review.pc = "files"
    /\ review.idx < Len(Filenames)
    /\ \E outcome \in {"200", "200_not_json", "404", "error"} :
         review' = NextFile(check_file_exists(review, Filenames[review.idx + 1],
                                              outcome))
    /\ UNCHANGED reviewFrame

\* main(), line 738.
ReturnReview ==
    /\ review.pc = "files"
    /\ review.idx = Len(Filenames)
    /\ review' = [review EXCEPT !.pc = "done",
                                !.rc = IF review.is_compliant THEN 0 ELSE 1]
    /\ UNCHANGED reviewFrame

\* Between two runs the user edits the CONTRIBUTORS.md the hook generated.
EditContributors ==
    /\ review.pc \in {"done", "raised"}
    /\ review.repo.files["CONTRIBUTORS.md"].kind = "generated"
    /\ review' = [review EXCEPT !.repo.files["CONTRIBUTORS.md"] = UserFile({})]
    /\ UNCHANGED reviewFrame

NextReview ==
    \/ StartReview
    \/ CheckDirsExist
    \/ CheckConfigFile
    \/ CheckFileExists
    \/ ReturnReview
    \/ EditContributors

SpecReview == InitReview /\ [][NextReview]_vars

\* C20: update_year_range rewrites only the first year or year range of
\* the file: every other line, and in the line of the first year token the
\* text before and after the token, is the same before and after the call.
C20_OnlyFirstToken ==
    out.done =>
        /\ Len(out.val.content) = Len(inp.content)
        /\ \A i \in 1..Len(inp.content) :
             IF i # FirstYearLine(inp.content)
             THEN out.val.content[i] = inp.content[i]
             ELSE /\ SubSeq(out.val.content[i].txt, 1,
                            SearchYear(inp.content[i].txt) - 1)
                       = SubSeq(inp.content[i].txt, 1,
                                SearchYear(inp.content[i].txt) - 1)
                  /\ SubSeq(out.val.content[i].txt,
                            Len(out.val.content[i].txt) + 1
                              - (Len(inp.content[i].txt) + 1
                                   - SearchYear(inp.content[i].txt)
                                   - MatchLenAt(inp.content[i].txt,
                                                SearchYear(inp.content[i].txt))),
                            Len(out.val.content[i].txt))
                       = SubSeq(inp.content[i].txt,
                                SearchYear(inp.content[i].txt)
                                  + MatchLenAt(inp.content[i].txt,
                                               SearchYear(inp.content[i].txt)),
                                Len(inp.content[i].txt))

(***************************************************************************)
(* Properties of tech-review.                                              *)
(***************************************************************************)
\* C15: tech-review main() returns 0 exactly when every directory,
\* config-file and required-file check passed and 1 when at least one
\* failed; within a run the flag is_compliant only goes from True to False.
C15_ReviewExit ==
    /\ [](review.pc = "done" =>
            /\ review.rc \in {0, 1}
            /\ review.rc = 0 <=> review.failures = {})
    /\ [][(review'.runs = review.runs /\ review'.is_compliant)
             => review.is_compliant]_vars

\* C15, the case: a run in which only the directory check failed has
\* returned 1, although every later check passed.
C15_Witness ==
    /\ review.pc = "done"
    /\ review.rc = 1
    /\ review.failures # {}
    /\ \A f \in review.failures : f.kind = "dir"

\* C16: when a run failed only because directories or files were missing
\* and the hook generated all of them, the next run with the same arguments
\* returns 0.
C16_SecondRunPasses ==
    (/\ review.pc = "done"
     /\ review.prev.rc = 1
     /\ \A f \in review.prev.failures : f.kind \in {"dir", "missing"} /\ f.fixed)
        => review.rc = 0

\* C16 as the code has it: the next run raises nothing and returns 0 when,
\* in addition, neither CONTRIBUTORS.md nor LICENSE was among the generated
\* files and the run before had the license list to check LICENSE against.
C16_SecondRunPassesUnless ==
    (/\ review.prev.rc = 1
     /\ \A f \in review.prev.failures :
          /\ f.kind \in {"dir", "missing"}
          /\ f.fixed
          /\ f.what \notin {"CONTRIBUTORS.md", "LICENSE"}
     /\ review.prev.downloaded)
        => /\ review.pc # "raised"
           /\ review.pc = "done" => review.rc = 0

\* C16, the case: the run before generated missing files, and this run
\* returned 0.
C16_Witness ==
    /\ review.pc = "done"
    /\ review.prev.rc = 1
    /\ \A f \in review.prev.failures : f.kind \in {"dir", "missing"} /\ f.fixed
    /\ review.prev.downloaded
    /\ \E f \in review.prev.failures : f.kind = "missing"
    /\ \E f \in review.prev.failures : f.kind = "dir"
    /\ \A f \in review.prev.failures : f.what \notin {"CONTRIBUTORS.md", "LICENSE"}
    /\ review.rc = 0

\* C17: whenever CONTRIBUTORS.md exists and is the same as the content
\* generated from its template, tech-review marks the repository
\* non-compliant and the run returns 1, on every run until the file is
\* edited.
C17_ContributorsUnchanged ==
    (/\ review.pc \in {"files", "done"}
     /\ review.idx >= 4
     /\ review.repo.files["CONTRIBUTORS.md"] =
            generate_file_from_jinja(review, "CONTRIBUTORS.md"))
        => /\ ~review.is_compliant
           /\ review.pc = "done" => review.rc = 1

\* C17, the case: a second run found the CONTRIBUTORS.md that the hook
\* generated, nothing else, and returned 1.
C17_Witness ==
    /\ review.pc = "done"
    /\ review.runs = 2
    /\ review.failures = {Failure("contributors", "CONTRIBUTORS.md", FALSE)}
    /\ review.rc = 1

\* C18: whenever setup.py exists, with or without pyproject.toml, the
\* config kind is "setuptools", pyproject.toml is not inspected and the
\* config check leaves the flag as it was; of the missing checklist files
\* only dependabot.yml is generated, in its setuptools form, the others are
\* reported, and a run with a missing checklist file returns 1.
C18_SetupPyPrecedence ==
    /\ []((review.pc \in {"files", "done"} /\ review.repo.setup_py) =>
            /\ review.config_file = "setuptools"
            /\ \A f \in review.failures :
                 /\ f.kind # "name"
                 /\ f.kind = "missing" => (f.fixed <=> f.what = "dependabot.yml")
            /\ review.repo.files["dependabot.yml"].kind = "generated" =>
                 review.repo.files["dependabot.yml"].config_file = "setuptools"
            /\ (review.pc = "done" /\ \E f \in review.failures : f.kind = "missing")
                 => review.rc = 1)
    /\ [][(review.pc = "config" /\ review.repo.setup_py) =>
             /\ review'.pc = "files"
             /\ review'.is_compliant = review.is_compliant]_vars

\* C18, the case: setup.py and a pyproject.toml without [project] table;
\* dependabot.yml was generated, LICENSE was only reported, the run
\* returned 1.
C18_Witness ==
    /\ review.pc = "done"
    /\ review.repo.setup_py
    /\ review.repo.pyproject.exists
    /\ Failure("missing", "dependabot.yml", TRUE) \in review.failures
    /\ Failure("missing", "LICENSE", FALSE) \in review.failures
    /\ review.repo.files["dependabot.yml"].config_file = "setuptools"
    /\ review.rc = 1

\* C19: whenever the license list is not cached and its download fails,
\* with a status other than 200 or with a connection error or timeout,
\* tech-review raises no error, skips the LICENSE content check, leaves the
\* flag as it was and writes no cache file.
C19_DownloadFailure ==
    [][(/\ review.pc = "files"
        /\ review.outcome = "none"
        /\ review'.outcome \in {"404", "error"}) =>
          /\ review'.pc = "files"
          /\ review'.is_compliant = review.is_compliant
          /\ review'.failures = review.failures
          /\ ~review'.cached]_vars

(***************************************************************************)
(* Properties of the walker and of the assets.                             *)
(***************************************************************************)
\* C21: on the update path, update_header called with the flag 0 returns 1
\* if and only if the content of the file after the call differs from the
\* content before the annotator ran; it returns 0 when they are equal.
C21_UpdateFlag ==
    \A i \in 1..Len(calls) :
        (/\ calls[i].path = "update"
         /\ calls[i].flag_in = 0
         /\ ~(pc = "aborted" /\ i = Len(calls)))
            => (calls[i].flag_out = 1 <=> files[calls[i].file] # calls[i].pre)

\* C21, the cases: of two files on the update path with the flag 0 the
\* first was left as it was and gave 0, the second was changed and gave 1.
C21_Witness ==
    /\ Len(calls) = 2
    /\ calls[1].path = "update" /\ calls[1].flag_in = 0 /\ calls[1].flag_out = 0
    /\ files[calls[1].file] = calls[1].pre
    /\ calls[2].path = "update" /\ calls[2].flag_in = 0 /\ calls[2].flag_out = 1
    /\ files[calls[2].file] # calls[2].pre
    /\ pc = "walk"

\* C22: let k be the first line of the after-file that is not reuse metadata
\* and follows a metadata line.  apply_hook_changes writes the after-file up
\* to k, then line k of the after-file exactly when the before-file has a
\* line k that differs from it, then the before-file from k on; when the
\* before-file has no line k nothing more is written and no error is raised.
C22_TransitionStep ==
    out.done =>
        LET a == inp.after
            b == inp.before
            Ks == {j \in 1..Len(a) :
                     /\ ~contains_reuse_info(a[j])
                     /\ \E i \in 1..(j - 1) : contains_reuse_info(a[i])}
        IN  Ks # {} =>
              LET k == CHOOSE j \in Ks : \A x \in Ks : j <= x
              IN  out.val = SubSeq(a, 1, k - 1)
                            \o (IF k <= Len(b) /\ b[k] # a[k] THEN <<a[k]>> ELSE <<>>)
                            \o SubSeq(b, k, Len(b))

\* C22, the case: the header grew by a line, so the line after it in the
\* after-file differs from the line of the before-file at that place and is
\* written once more, before the rest of the before-file.
C22_Witness ==
    /\ out.done
    /\ Len(inp.new_header) = Len(inp.header) + 1
    /\ Len(inp.body) = 3
    /\ out.val = inp.new_header \o <<inp.body[1]>> \o SubSeq(inp.body, 2, 3)

\* C23: with license checking enabled, a listed file that has copyright
\* metadata but no license identifier is treated as non-compliant: after the
\* run it carries a license identifier.
C23_LicenseRequired ==
    (pc = "done" /\ ~args.ignore_license_check) =>
        \A i \in 1..Len(args.files) :
            (/\ \E j \in 1..Len(start_files[args.files[i]]) :
                    start_files[args.files[i]][j].k = "copy"
             /\ LicenseLines(start_files[args.files[i]]) = {})
                => LicenseLines(files[args.files[i]]) # {}

\* C24: main() selects the recursive walker only for file counts at which
\* its call depth stays within the recursion limit: for every file count
\* the walk finishes without a recursion-depth error.
C24_NoRecursionError ==
    out.done => out.val.main.raise # "RecursionError"

\* C25: whenever unlinking a default asset leaves its directory
\* (.reuse/templates or LICENSES) with no entries, cleanup removes the
\* directory, so a repository that had neither directory before the run has
\* neither after it.
C25_EmptyDirsRemoved ==
    /\ [](pc = "done" =>
            /\ start_files.templates_dir = "absent" => files.templates_dir = "absent"
            /\ start_files.licenses_dir = "absent" => files.licenses_dir = "absent")
    /\ [][/\ (Exists(files.template) /\ files'.template = "absent"
                /\ files.templates_dir = "empty") => files'.templates_dir = "absent"
          /\ (Exists(files.license) /\ files'.license = "absent"
                /\ files.licenses_dir = "empty") => files'.licenses_dir = "absent"]_vars

\* C29: a template or license text that was a file of the repository at
\* .reuse/templates/ansys.jinja2 or LICENSES/MIT.txt before the run is
\* still there, as it was, when main() has returned.
C29_UserAssetsKept ==
    pc = "done" =>
        /\ start_files.template = "file" => files.template = "file"
        /\ start_files.license = "file" => files.license = "file"

\* C28: when main() aborts on the check of --start_year the repository is
\* as it was when the run began: no LICENSE backup was made, LICENSE was not
\* regenerated, no asset was linked or removed, and no listed file was read
\* or written.
C28_RejectedStartYear ==
    /\ [][pc' = "parsed" => UNCHANGED <<license, license_save, files, assets>>]_vars
    /\ [][(pc = "parsed" /\ pc' = "aborted") =>
             /\ UNCHANGED <<license, license_save, files, assets>>
             /\ calls' = <<>>]_vars
    /\ []((pc = "aborted" /\ err \in {"raise_later_than_current",
                                       "raise_earlier_than_1942",
                                       "raise_not_a_number"}) =>
            /\ license = start_license
            /\ ~license_save
            /\ files = start_files
            /\ calls = <<>>)

\* C28, the case: a run on a repository with a LICENSE of an earlier year,
\* default assets of the user and a file without header was ended by a
\* --start_year that is not a number.
C28_Witness ==
    /\ pc = "aborted"
    /\ err = "raise_not_a_number"
    /\ license = LicenseFile(YearStr(ThisYear - 2))
    /\ assets.license = "file"
    /\ files[1] = <<Body1>>
    /\ files = start_files

\* C26: over any sequence of tech-review runs the license list is requested
\* only while no cache file exists; a failed download leaves no cache file,
\* so that the next check of LICENSE requests it again; and whenever the
\* cache file exists at the end of a download_license_json call it is in
\* the flat form, license id to name, with no deprecated license.
C26_OneTimeDownload ==
    /\ [][review'.outcome \notin {review.outcome, "none"} => ~review.cached]_vars
    /\ [][(review.outcome = "none" /\ review'.outcome \in {"404", "error"})
             => ~review'.cached]_vars
    /\ [][(/\ review.pc = "files"
           /\ review.idx < Len(Filenames)
           /\ review'.idx # review.idx \/ review'.pc = "raised"
           /\ Filenames[review.idx + 1] = "LICENSE"
           /\ FileExists(review.repo, "LICENSE")
           /\ ~review.cached) => review'.outcome # "none"]_vars
    /\ [](review.cached =>
            /\ ~review.raw
            /\ \A l \in SpdxLicenses :
                 l.licenseId \in DOMAIN LicenseJson <=> ~l.isDeprecatedLicenseId)

\* C27: for every list of distinct files the flag a walker returns is the OR
\* of the flag it was given and of the outcomes of the files (a flag of 1 is
\* never reset by a later file), and the flag and the content of every file
\* afterwards are the same for every permutation of the list.
C27_OrderInsensitive ==
    (/\ out.done
     /\ \A i, j \in 1..Len(inp.pre_commit_files) :
          i # j => inp.pre_commit_files[i] # inp.pre_commit_files[j]) =>
        LET l == inp.pre_commit_files
            v == set_variables(WalkValues(inp.options), inp.options)
            w0 == StartWalk(inp.changed_headers, inp.files)
            any == IF \/ inp.changed_headers = 1
                      \/ \E i \in 1..Len(l) : check_file(0, inp.files[l[i]], v).changed = 1
                   THEN 1 ELSE 0
            perms == {q \in FileLists(MaxWalkLen + 1) :
                        /\ Len(q) = Len(l)
                        /\ {q[i] : i \in 1..Len(q)} = {l[i] : i \in 1..Len(l)}}
        IN  /\ out.val.recursive.raise = "none"
            /\ out.val.non_recursive.raise = "none"
            /\ out.val.recursive.changed = any
            /\ out.val.non_recursive.changed = any
            /\ \A i \in 1..Len(l) : check_file(1, inp.files[l[i]], v).changed = 1
            /\ \A q \in perms :
                 /\ recursive_file_check(w0, v, q, 0).changed = out.val.recursive.changed
                 /\ recursive_file_check(w0, v, q, 0).files = out.val.recursive.files
                 /\ non_recursive_file_check(w0, v, q).changed
                      = out.val.non_recursive.changed
                 /\ non_recursive_file_check(w0, v, q).files = out.val.non_recursive.files

\* C27, the case: of two files the first was left as it was (outcome 0) and
\* the second got a header (outcome 1); the walker started with the flag 0
\* and returned 1.
C27_Witness ==
    /\ out.done
    /\ inp.changed_headers = 0
    /\ inp.pre_commit_files = <<1, 2>>
    /\ out.val.non_recursive.calls = <<[file |-> 1, path |-> "update"],
                                       [file |-> 2, path |-> "insert"]>>
    /\ out.val.non_recursive.files[1] = inp.files[1]
    /\ out.val.non_recursive.changed = 1

\* C30: whenever the pyproject.toml that tech-review inspects lacks a name
\* or an email of the authors or of the maintainers (the entry has no such
\* field, the table has no authors or no maintainers key, or the file has
\* no [project] table), check_pyproject_toml returns, the repository is
\* marked non-compliant and each absent value is reported as one that does
\* not exist.
C30_MissingMetadataReported ==
    (/\ review.pc \in {"files", "done", "raised"}
     /\ ~review.repo.setup_py
     /\ review.repo.pyproject.exists
     /\ \E key \in {"authors", "maintainers"}, value \in {"name", "email"} :
          review.repo.pyproject[key][value] = "DNE")
        => /\ review.err # "AttributeError"
           /\ ~review.is_compliant
           /\ \A key \in {"authors", "maintainers"}, value \in {"name", "email"} :
                review.repo.pyproject[key][value] = "DNE"
                  => Failure("does not exist", MetadataName(key, value), FALSE)
                        \in review.failures

====
